---- MODULE Spec2Model ----
(***************************************************************************)
(* Model of Publisher/publishGames.py: upload_games_from_csv reconciles    *)
(* two CSV files (gameStructure.csv, games.csv) with a Firestore document  *)
(* store through one write batch, then rewrites games.csv.                 *)
(*                                                                         *)
(* Python values are tagged tuples so that None, '' and [] stay distinct:  *)
(*   None -> <<"none">>, str s -> <<"str", s>>, float -> <<"float", n>>    *)
(*   (n in tenths), int -> <<"int", n>>, list -> <<"list", seq>>.          *)
(* CSV cells are strings; every row of a file carries exactly the columns  *)
(* of the file's header (csv.DictReader), rows are full length.            *)
(***************************************************************************)
EXTENDS Integers, Sequences, FiniteSets, TLC

VARIABLES
    store,              \* Firestore: document path -> document (a record)
    clock,              \* the server's clock, read by SERVER_TIMESTAMP
    gamesFile,          \* games.csv on disk: [fieldnames, rows]
    structureFile,      \* gameStructure.csv on disk: [fieldnames, rows]
    pc,                 \* position of upload_games_from_csv
    games_csv,          \* list(reader) of games.csv, rows mutated in place
    structure_csv,      \* list(reader) of gameStructure.csv
    batch,              \* the writes queued in db.batch(), in order
    existing_games,     \* fetch_existing_games(db): id -> document
    updated_games_csv,  \* the rows kept for the rewrite
    si,                 \* index of the next structure row
    gi,                 \* index of the next games row
    rowOutcome,         \* what the game pass did with each row so far
    runs,               \* runs that committed so far
    commits,            \* batch.commit() calls issued in the current run
    preStore,           \* the store when the current run started
    preFile,            \* games.csv when the current run started
    prevEnd,            \* how the latest run ended, "running" during a run
    rerun               \* the run follows a completed run, nothing changed between

vars == <<store, clock, gamesFile, structureFile, pc, games_csv, structure_csv,
          batch, existing_games, updated_games_csv, si, gi, rowOutcome, runs,
          commits, preStore, preFile, prevEnd, rerun>>

-----------------------------------------------------------------------------
(* Bounds of the model *)

MaxGameRows == 2
MaxStructRows == 2
MaxRuns == 2

-----------------------------------------------------------------------------
(* Python values *)

PyNone == <<"none">>
PyStr(s) == <<"str", s>>
PyFloat(n) == <<"float", n>>
PyInt(n) == <<"int", n>>
PyList(l) == <<"list", l>>

Range(f) == {f[i] : i \in DOMAIN f}

(* The characters of the cell strings the model uses. *)
Chars(s) ==
    CASE s = "" -> <<>>
      [] s = "30" -> <<"3", "0">>
      [] s = "30.0" -> <<"3", "0", ".", "0">>
      [] s = "60" -> <<"6", "0">>
      [] s = "1m" -> <<"1", "m">>
      [] s = "A,a" -> <<"A", ",", "a">>
      [] s = "A, a" -> <<"A", ",", " ", "a">>

DigitChars == <<"0", "1", "2", "3", "4", "5", "6", "7", "8", "9">>

DigitValue(c) == (CHOOSE i \in DOMAIN DigitChars : DigitChars[i] = c) - 1

IsDigitChar(c) == c \in Range(DigitChars)

(* str.isdigit(): non-empty and all characters are digits. *)
IsDigit(s) == Chars(s) # <<>> /\ \A i \in DOMAIN Chars(s) : IsDigitChar(Chars(s)[i])

RECURSIVE DigitsValue(_)
DigitsValue(cs) ==
    IF cs = <<>> THEN 0
    ELSE 10 * DigitsValue(SubSeq(cs, 1, Len(cs) - 1)) + DigitValue(cs[Len(cs)])

(* int(s) for a string of digits. *)
ParseInt(s) == DigitsValue(Chars(s))

(* float(s) for digits with at most one fractional digit, in tenths. *)
ParseFloat(s) ==
    LET cs == Chars(s)
        dots == {i \in DOMAIN cs : cs[i] = "."}
    IN  IF dots = {} THEN 10 * DigitsValue(cs)
        ELSE LET d == CHOOSE i \in dots : TRUE
             IN  10 * DigitsValue(SubSeq(cs, 1, d - 1))
                 + DigitsValue(SubSeq(cs, d + 1, Len(cs)))

RECURSIVE JoinChars(_)
JoinChars(cs) == IF cs = <<>> THEN "" ELSE cs[1] \o JoinChars(Tail(cs))

(* str.split(','): the pieces between commas, as character sequences. *)
RECURSIVE SplitComma(_)
SplitComma(cs) ==
    LET commas == {i \in DOMAIN cs : cs[i] = ","}
    IN  IF commas = {} THEN <<cs>>
        ELSE LET c == CHOOSE i \in commas : \A j \in commas : i <= j
             IN  <<SubSeq(cs, 1, c - 1)>> \o SplitComma(SubSeq(cs, c + 1, Len(cs)))

(* str.strip(): drop leading and trailing blanks. *)
RECURSIVE Strip(_)
Strip(cs) ==
    IF cs = <<>> THEN cs
    ELSE IF cs[1] = " " THEN Strip(Tail(cs))
    ELSE IF cs[Len(cs)] = " " THEN Strip(SubSeq(cs, 1, Len(cs) - 1))
    ELSE cs

(* [ans.strip() for ans in s.split(',')] *)
SplitStrip(s) ==
    LET parts == SplitComma(Chars(s))
    IN  [i \in DOMAIN parts |-> JoinChars(Strip(parts[i]))]

-----------------------------------------------------------------------------
(* Rows and files *)

(* dict.get(key): None when the column is absent. *)
Get(row, key) == IF key \in DOMAIN row THEN PyStr(row[key]) ELSE PyNone

(* The row without a column (a file whose header lacks it). *)
Without(row, cols) == [k \in DOMAIN row \ cols |-> row[k]]

GameFieldnames ==
    <<"id", "name", "description", "instructions", "timeLimit", "gameModeId",
      "levelId", "letterPosition", "targetLetter", "answerBank">>

StructureFieldnames ==
    <<"id", "name", "description", "levelId", "levelName", "levelDescription",
      "levelSuggestedTimeLimit">>

GameRow(id, name, desc, tl, gm, lvl, ab) ==
    [id |-> id, name |-> name, description |-> desc, instructions |-> "tap A",
     timeLimit |-> tl, gameModeId |-> gm, levelId |-> lvl, letterPosition |-> "",
     targetLetter |-> "", answerBank |-> ab]

StructureRow(gm, name, lvl, lname, stl) ==
    [id |-> gm, name |-> name, description |-> "m", levelId |-> lvl,
     levelName |-> lname, levelDescription |-> "ld",
     levelSuggestedTimeLimit |-> stl]

-----------------------------------------------------------------------------
(* The inputs the model draws from *)

(* A games.csv row carries no id or the id "n1", which the seeded store holds *)
(* and the empty store does not.                                              *)
GameRows ==
    { (* no id: a game to create, in a level of the structure file or not *)
      GameRow("", "Find A", "d", "30", "gm1", "lvl1", "A,a"),
      GameRow("", "Find A", "d", "30", "gm1", "lvl2", "A,a"),
      (* the id of the seeded game: its tracked values written another way *)
      (* under another name, other tracked values, another level           *)
      GameRow("n1", "Find B", "d", "30.0", "gm1", "lvl1", "A, a"),
      GameRow("n1", "Find A", "", "", "gm1", "lvl1", ""),
      GameRow("n1", "Find A", "d", "30", "gm1", "lvl2", "A,a") }
StructureRows ==
    { StructureRow("gm1", "Mode 1", "lvl1", "Level 1", "60"),
      StructureRow("gm1", "Mode 1", "lvl2", "Level 2", ""),
      StructureRow("gm1", "Mode one", "lvl1", "Level one", "1m") }

(* Columns a games.csv header may lack: none, one the game pass indexes itself, *)
(* one build_game_data indexes. *)
MissingColumns == { {}, {"levelId"}, {"timeLimit"} }

SeqsUpTo(S, n) == UNION { [1..k -> S] : k \in 0..n }

RemoveAll(seq, cols) == SelectSeq(seq, LAMBDA c : c \notin cols)

GamesFiles ==
    { [fieldnames |-> RemoveAll(GameFieldnames, m),
       rows |-> [i \in DOMAIN rs |-> Without(rs[i], m)]] :
         rs \in SeqsUpTo(GameRows, MaxGameRows), m \in MissingColumns }

StructureFiles ==
    { [fieldnames |-> StructureFieldnames, rows |-> rs] :
         rs \in SeqsUpTo(StructureRows, MaxStructRows) }

-----------------------------------------------------------------------------
(* Firestore *)

GameModePath(gm) == <<"gameModes", gm>>
LevelPath(gm, lvl) == <<"gameModes", gm, "levels", lvl>>
GamePath(id) == <<"games", id>>

SERVER_TIMESTAMP == <<"SERVER_TIMESTAMP">>
ArrayUnion(refs) == <<"ArrayUnion", refs>>
Timestamp(t) == <<"timestamp", t>>

Exists(s, path) == path \in DOMAIN s

(* ArrayUnion: append, in order, the elements the array does not hold yet. *)
RECURSIVE UnionInto(_, _)
UnionInto(arr, refs) ==
    IF refs = <<>> THEN arr
    ELSE UnionInto(IF refs[1] \in Range(arr) THEN arr ELSE Append(arr, refs[1]),
                   Tail(refs))

(* The value a written field takes: transforms are resolved by the server. *)
FieldValue(doc, key, v, now) ==
    IF v = SERVER_TIMESTAMP THEN Timestamp(now)
    ELSE IF v[1] = "ArrayUnion"
         THEN PyList(UnionInto(IF key \in DOMAIN doc /\ doc[key][1] = "list"
                               THEN doc[key][2] ELSE <<>>, v[2]))
         ELSE v

EmptyDoc == [k \in {} |-> PyNone]

(* set: the document becomes exactly the data. *)
SetDoc(s, path, data, now) ==
    (path :> [k \in DOMAIN data |-> FieldValue(EmptyDoc, k, data[k], now)]) @@ s

(* update: the named fields are overwritten, the others kept. *)
UpdateDoc(s, path, data, now) ==
    (path :> [k \in DOMAIN s[path] \cup DOMAIN data |->
                 IF k \in DOMAIN data
                 THEN FieldValue(s[path], k, data[k], now)
                 ELSE s[path][k]]) @@ s

(* A write is rejected when it updates a document that does not exist. *)
WriteOk(s, w) == w.op = "set" \/ Exists(s, w.path)

ApplyWrite(s, w, now) ==
    IF w.op = "set" THEN SetDoc(s, w.path, w.data, now)
    ELSE UpdateDoc(s, w.path, w.data, now)

(* batch.commit(): the writes in order, all of them or none. *)
RECURSIVE ApplyAll(_, _, _)
ApplyAll(s, ws, now) ==
    IF ws = <<>> THEN [ok |-> TRUE, store |-> s]
    ELSE IF ~WriteOk(s, ws[1]) THEN [ok |-> FALSE, store |-> s]
    ELSE ApplyAll(ApplyWrite(s, ws[1], now), Tail(ws), now)

BatchSet(path, data) == [op |-> "set", path |-> path, data |-> data]
BatchUpdate(path, data) == [op |-> "update", path |-> path, data |-> data]

-----------------------------------------------------------------------------
(* The helpers of publishGames.py *)

(* fetch_existing_games: every document of the games collection, by id *)
fetch_existing_games(s) ==
    LET ids == {p[2] : p \in {q \in DOMAIN s : q[1] = "games"}}
    IN  [i \in ids |-> s[GamePath(i)]]

(* Mutant: levelId is left out of the compared keys. *)
keys_to_check_NoLevel ==
    <<"description", "instructions", "timeLimit", "gameModeId",
      "letterPosition", "targetLetter", "answerBank">>

keys_to_check ==
    <<"description", "instructions", "timeLimit", "gameModeId", "levelId",
      "letterPosition", "targetLetter", "answerBank">>

(* dict.get on a document *)
DocGet(doc, key) == IF key \in DOMAIN doc THEN doc[key] ELSE PyNone

has_game_changed(existing_game, new_game_data) ==
    \E i \in DOMAIN keys_to_check :
        DocGet(existing_game, keys_to_check[i]) # DocGet(new_game_data, keys_to_check[i])

(* The columns build_game_data indexes: a KeyError when one is absent. *)
BuildRequired == {"name", "instructions", "timeLimit", "answerBank"}

build_game_data(game, game_mode_id, level_id) ==
    [name |-> PyStr(game["name"]),
     description |-> Get(game, "description"),
     instructions |-> PyStr(game["instructions"]),
     timeLimit |-> IF game["timeLimit"] # ""
                   THEN PyFloat(ParseFloat(game["timeLimit"])) ELSE PyNone,
     gameModeId |-> PyStr(game_mode_id),
     levelId |-> PyStr(level_id),
     letterPosition |-> Get(game, "letterPosition"),
     targetLetter |-> Get(game, "targetLetter"),
     answerBank |-> IF game["answerBank"] # ""
                    THEN PyList(SplitStrip(game["answerBank"])) ELSE PyNone]

(* dict.update *)
DictUpdate(d, e) == e @@ d

-----------------------------------------------------------------------------
(* Initial states: a store the program has produced (empty, or holding one  *)
(* mode, one level and one game from an earlier run) and two files.         *)

EmptyStore == [p \in {} |-> EmptyDoc]

SeededStore ==
    (GameModePath("gm1") :> [name |-> PyStr("Mode 1"), description |-> PyStr("m")])
    @@ (LevelPath("gm1", "lvl1") :>
            [name |-> PyStr("Level 1"), description |-> PyStr("ld"),
             sugTimeLimit |-> PyInt(60), gameRefs |-> PyList(<<"n1">>)])
    @@ (GamePath("n1") :>
            DictUpdate(build_game_data(GameRow("", "Find A", "d", "30", "gm1", "lvl1", "A,a"),
                                       "gm1", "lvl1"),
                       [createdAt |-> Timestamp(1), updatedAt |-> Timestamp(1)]))

Init ==
    /\ \E seeded \in BOOLEAN :
          /\ store = IF seeded THEN SeededStore ELSE EmptyStore
          /\ clock = IF seeded THEN 1 ELSE 0
    /\ gamesFile \in GamesFiles
    /\ structureFile \in StructureFiles
    /\ pc = "idle"
    /\ games_csv = <<>>
    /\ structure_csv = <<>>
    /\ batch = <<>>
    /\ existing_games = <<>>
    /\ updated_games_csv = <<>>
    /\ si = 1
    /\ gi = 1
    /\ rowOutcome = <<>>
    /\ runs = 0
    /\ commits = 0
    /\ preStore = store
    /\ preFile = gamesFile
    /\ prevEnd = "none"
    /\ rerun = FALSE

-----------------------------------------------------------------------------
(* upload_games_from_csv, lines 47-57: read both files; an empty one ends   *)
(* the run.                                                                 *)

read_csv(file) == file.rows

(* Mutant: the warning is printed but the function does not return. *)
StartEmpty_NoReturn ==
    /\ pc = "idle"
    /\ runs < MaxRuns
    /\ read_csv(gamesFile) = <<>> \/ read_csv(structureFile) = <<>>
    /\ games_csv' = read_csv(gamesFile)
    /\ structure_csv' = read_csv(structureFile)
    /\ commits' = 0
    /\ batch' = <<>>
    /\ updated_games_csv' = <<>>
    /\ rowOutcome' = <<>>
    /\ si' = 1
    /\ gi' = 1
    /\ preStore' = store
    /\ preFile' = gamesFile
    /\ pc' = "structure"
    /\ prevEnd' = "running"
    /\ rerun' = (prevEnd = "done")
    /\ existing_games' = <<>>
    /\ UNCHANGED <<store, clock, gamesFile, structureFile, runs>>

StartEmpty ==
    /\ pc = "idle"
    /\ runs < MaxRuns
    /\ read_csv(gamesFile) = <<>> \/ read_csv(structureFile) = <<>>
    /\ games_csv' = read_csv(gamesFile)
    /\ structure_csv' = read_csv(structureFile)
    /\ commits' = 0
    /\ batch' = <<>>
    /\ updated_games_csv' = <<>>
    /\ rowOutcome' = <<>>
    /\ preStore' = store
    /\ preFile' = gamesFile
    /\ prevEnd' = "empty"
    /\ rerun' = FALSE
    /\ existing_games' = <<>>
    /\ si' = 1
    /\ gi' = 1
    /\ UNCHANGED <<runs, store, clock, gamesFile, structureFile, pc>>

(* lines 47-59: both files have rows; the batch is opened. *)
StartRun ==
    /\ pc = "idle"
    /\ runs < MaxRuns
    /\ read_csv(gamesFile) # <<>>
    /\ read_csv(structureFile) # <<>>
    /\ games_csv' = read_csv(gamesFile)
    /\ structure_csv' = read_csv(structureFile)
    /\ commits' = 0
    /\ batch' = <<>>
    /\ updated_games_csv' = <<>>
    /\ rowOutcome' = <<>>
    /\ si' = 1
    /\ gi' = 1
    /\ preStore' = store
    /\ preFile' = gamesFile
    /\ pc' = "structure"
    /\ prevEnd' = "running"
    /\ rerun' = (prevEnd = "done")
    /\ existing_games' = <<>>
    /\ UNCHANGED <<store, clock, gamesFile, structureFile, runs>>

(* lines 64-75: the GameMode write of a structure row *)
GameModeWrite(s, structure) ==
    LET game_mode_ref == GameModePath(structure["id"])
        game_mode_data == [name |-> PyStr(structure["name"]),
                           description |-> PyStr(structure["description"])]
    IN  IF Exists(s, game_mode_ref)
        THEN BatchUpdate(game_mode_ref, game_mode_data)
        ELSE BatchSet(game_mode_ref, game_mode_data)

(* Mutant: the level is always written with set and an empty gameRefs. *)
LevelWrite_Clobber(s, structure) ==
    BatchSet(LevelPath(structure["id"], structure["levelId"]),
             [name |-> PyStr(structure["levelName"]),
              description |-> PyStr(structure["levelDescription"]),
              sugTimeLimit |-> IF IsDigit(structure["levelSuggestedTimeLimit"])
                               THEN PyInt(ParseInt(structure["levelSuggestedTimeLimit"]))
                               ELSE PyNone,
              gameRefs |-> PyList(<<>>)])

(* lines 77-88: the Level write of a structure row *)
LevelWrite(s, structure) ==
    LET level_ref == LevelPath(structure["id"], structure["levelId"])
        level_data ==
            [name |-> PyStr(structure["levelName"]),
             description |-> PyStr(structure["levelDescription"]),
             sugTimeLimit |-> IF IsDigit(structure["levelSuggestedTimeLimit"])
                              THEN PyInt(ParseInt(structure["levelSuggestedTimeLimit"]))
                              ELSE PyNone]
        existing_level == IF Exists(s, level_ref) THEN s[level_ref] ELSE EmptyDoc
    IN  IF Exists(s, level_ref)
        THEN BatchUpdate(level_ref, level_data)
        ELSE BatchSet(level_ref,
                      DictUpdate(level_data,
                                 [gameRefs |-> IF "gameRefs" \in DOMAIN existing_level
                                               THEN existing_level["gameRefs"]
                                               ELSE PyList(<<>>)]))

(* Mutant: the structure pass writes each document at once instead of queueing it. *)
StructureStep_Direct ==
    /\ pc = "structure"
    /\ si <= Len(structure_csv)
    /\ store' = SetDoc(store, GameModePath(structure_csv[si]["id"]),
                       GameModeWrite(store, structure_csv[si]).data, clock)
    /\ batch' = Append(batch, LevelWrite(store, structure_csv[si]))
    /\ si' = si + 1
    /\ UNCHANGED <<rerun, clock, gamesFile, structureFile, pc, games_csv,
                   structure_csv, existing_games, updated_games_csv, gi,
                   rowOutcome, runs, commits, preStore, preFile, prevEnd>>

(* lines 60-88: one iteration of the structure pass *)
StructureStep ==
    /\ pc = "structure"
    /\ si <= Len(structure_csv)
    /\ batch' = batch \o <<GameModeWrite(store, structure_csv[si]),
                           LevelWrite(store, structure_csv[si])>>
    /\ si' = si + 1
    /\ UNCHANGED <<rerun, store, clock, gamesFile, structureFile, pc, games_csv,
                   structure_csv, existing_games, updated_games_csv, gi,
                   rowOutcome, runs, commits, preStore, preFile, prevEnd>>

(* lines 90-91: the structure pass is over; snapshot the games collection *)
FetchExisting ==
    /\ pc = "structure"
    /\ si > Len(structure_csv)
    /\ updated_games_csv' = <<>>
    /\ existing_games' = fetch_existing_games(store)
    /\ pc' = "games"
    /\ UNCHANGED <<rerun, store, clock, gamesFile, structureFile, games_csv, structure_csv,
                   batch, si, gi, rowOutcome, runs, commits, preStore, preFile,
                   prevEnd>>

-----------------------------------------------------------------------------
(* The game pass, lines 93-135, one row per step *)

(* a Python string is true when it is not empty *)
Truthy(v) == v # PyNone /\ v # PyStr("")

(* db.collection('games').document(): an id no document and no row carries *)
NewDocId(s, rows) ==
    LET used == {p[2] : p \in {q \in DOMAIN s : q[1] = "games"}}
                \cup {rows[i]["id"] : i \in DOMAIN rows}
        k == CHOOSE n \in 1..(Cardinality(used) + 1) :
                /\ ("n" \o ToString(n)) \notin used
                /\ \A m \in 1..(n - 1) : ("n" \o ToString(m)) \in used
    IN  "n" \o ToString(k)

(* The row's id names a document of the snapshot (a non-empty one). *)
Found(existing, game) ==
    /\ game["id"] \in DOMAIN existing
    /\ DOMAIN existing[game["id"]] # {}

(* The row raises KeyError: lines 96-97, or build_game_data when it is called. *)
RaisesKeyError(existing, game) ==
    \/ ~({"levelId", "gameModeId"} \subseteq DOMAIN game)
    \/ /\ ~Truthy(Get(game, "id")) \/ Found(existing, game)
       /\ ~(BuildRequired \subseteq DOMAIN game)

(* lines 104-113: the two writes of a row without an id *)
CreateWrites(game, new_id) ==
    <<BatchSet(GamePath(new_id),
               DictUpdate(build_game_data(game, game["gameModeId"], game["levelId"]),
                          [createdAt |-> SERVER_TIMESTAMP,
                           updatedAt |-> SERVER_TIMESTAMP])),
      BatchUpdate(LevelPath(game["gameModeId"], game["levelId"]),
                  [gameRefs |-> ArrayUnion(<<new_id>>)])>>

(* lines 122-125: the write of a row whose document changed *)
UpdateWrites(game) ==
    <<BatchUpdate(GamePath(game["id"]),
                  DictUpdate(build_game_data(game, game["gameModeId"], game["levelId"]),
                             [updatedAt |-> SERVER_TIMESTAMP]))>>

GameRowPending == pc = "games" /\ gi <= Len(games_csv)

(* Mutant: no try/except around the row, the KeyError ends the run. *)
GameRowKeyError_Abort ==
    /\ GameRowPending
    /\ RaisesKeyError(existing_games, games_csv[gi])
    /\ rowOutcome' = Append(rowOutcome, "keyerror")
    /\ gi' = gi + 1
    /\ pc' = "idle"
    /\ prevEnd' = "commitFailed"
    /\ UNCHANGED <<rerun, store, clock, gamesFile, structureFile, games_csv,
                   structure_csv, batch, existing_games, updated_games_csv, si,
                   runs, commits, preStore, preFile>>

(* lines 134-135: KeyError, the row is skipped and not kept *)
GameRowKeyError ==
    /\ GameRowPending
    /\ RaisesKeyError(existing_games, games_csv[gi])
    /\ rowOutcome' = Append(rowOutcome, "keyerror")
    /\ gi' = gi + 1
    /\ UNCHANGED <<rerun, store, clock, gamesFile, structureFile, pc, games_csv,
                   structure_csv, batch, existing_games, updated_games_csv, si,
                   runs, commits, preStore, preFile, prevEnd>>

(* Mutant: the new id is not written back into the row (line 115 missing). *)
GameRowCreate_NoWriteback ==
    /\ GameRowPending
    /\ ~RaisesKeyError(existing_games, games_csv[gi])
    /\ ~Truthy(Get(games_csv[gi], "id"))
    /\ batch' = batch \o CreateWrites(games_csv[gi], NewDocId(store, games_csv))
    /\ updated_games_csv' = Append(updated_games_csv, games_csv[gi])
    /\ rowOutcome' = Append(rowOutcome, "created")
    /\ gi' = gi + 1
    /\ UNCHANGED <<rerun, store, clock, gamesFile, structureFile, pc, games_csv,
                   structure_csv, existing_games, si, runs, commits, preStore,
                   preFile, prevEnd>>

(* lines 102-116 and 132: no id, a new document and its reference *)
GameRowCreate ==
    /\ GameRowPending
    /\ ~RaisesKeyError(existing_games, games_csv[gi])
    /\ ~Truthy(Get(games_csv[gi], "id"))
    /\ LET new_id == NewDocId(store, games_csv)
       IN  /\ batch' = batch \o CreateWrites(games_csv[gi], new_id)
           /\ games_csv' = [games_csv EXCEPT ![gi]["id"] = new_id]
           /\ updated_games_csv' = Append(updated_games_csv, games_csv'[gi])
    /\ rowOutcome' = Append(rowOutcome, "created")
    /\ gi' = gi + 1
    /\ UNCHANGED <<rerun, store, clock, gamesFile, structureFile, pc, structure_csv,
                   existing_games, si, runs, commits, preStore, preFile, prevEnd>>

(* lines 118-126 and 132: the id is known and a tracked field differs *)
GameRowUpdate ==
    /\ GameRowPending
    /\ ~RaisesKeyError(existing_games, games_csv[gi])
    /\ Truthy(Get(games_csv[gi], "id"))
    /\ Found(existing_games, games_csv[gi])
    /\ has_game_changed(existing_games[games_csv[gi]["id"]],
                        build_game_data(games_csv[gi], games_csv[gi]["gameModeId"],
                                        games_csv[gi]["levelId"]))
    /\ batch' = batch \o UpdateWrites(games_csv[gi])
    /\ updated_games_csv' = Append(updated_games_csv, games_csv[gi])
    /\ rowOutcome' = Append(rowOutcome, "updated")
    /\ gi' = gi + 1
    /\ UNCHANGED <<rerun, store, clock, gamesFile, structureFile, pc, games_csv,
                   structure_csv, existing_games, si, runs, commits, preStore,
                   preFile, prevEnd>>

(* lines 118-121, 127-128 and 132: the id is known and nothing tracked differs *)
GameRowUnchanged ==
    /\ GameRowPending
    /\ ~RaisesKeyError(existing_games, games_csv[gi])
    /\ Truthy(Get(games_csv[gi], "id"))
    /\ Found(existing_games, games_csv[gi])
    /\ ~has_game_changed(existing_games[games_csv[gi]["id"]],
                         build_game_data(games_csv[gi], games_csv[gi]["gameModeId"],
                                         games_csv[gi]["levelId"]))
    /\ updated_games_csv' = Append(updated_games_csv, games_csv[gi])
    /\ rowOutcome' = Append(rowOutcome, "unchanged")
    /\ gi' = gi + 1
    /\ UNCHANGED <<rerun, store, clock, gamesFile, structureFile, pc, games_csv,
                   structure_csv, batch, existing_games, si, runs, commits,
                   preStore, preFile, prevEnd>>

(* Mutant: the row whose id is unknown is not kept for the rewrite. *)
GameRowNotFound_Dropped ==
    /\ GameRowPending
    /\ ~RaisesKeyError(existing_games, games_csv[gi])
    /\ Truthy(Get(games_csv[gi], "id"))
    /\ ~Found(existing_games, games_csv[gi])
    /\ rowOutcome' = Append(rowOutcome, "notfound")
    /\ gi' = gi + 1
    /\ UNCHANGED <<rerun, store, clock, gamesFile, structureFile, pc, games_csv,
                   structure_csv, batch, existing_games, updated_games_csv, si,
                   runs, commits, preStore, preFile, prevEnd>>

(* lines 118-119, 129-130 and 132: the id is not in the snapshot *)
GameRowNotFound ==
    /\ GameRowPending
    /\ ~RaisesKeyError(existing_games, games_csv[gi])
    /\ Truthy(Get(games_csv[gi], "id"))
    /\ ~Found(existing_games, games_csv[gi])
    /\ updated_games_csv' = Append(updated_games_csv, games_csv[gi])
    /\ rowOutcome' = Append(rowOutcome, "notfound")
    /\ gi' = gi + 1
    /\ UNCHANGED <<rerun, store, clock, gamesFile, structureFile, pc, games_csv,
                   structure_csv, batch, existing_games, si, runs, commits,
                   preStore, preFile, prevEnd>>

-----------------------------------------------------------------------------
(* lines 137-141 *)

CommitPending == pc = "games" /\ gi > Len(games_csv)

(* line 137: batch.commit() applies every queued write *)
CommitOk ==
    /\ CommitPending
    /\ ApplyAll(store, batch, clock + 1).ok
    /\ store' = ApplyAll(store, batch, clock + 1).store
    /\ clock' = clock + 1
    /\ commits' = commits + 1
    /\ runs' = runs + 1
    /\ pc' = "write"
    /\ UNCHANGED <<gamesFile, structureFile, games_csv, structure_csv, batch,
                   existing_games, updated_games_csv, si, gi, rowOutcome, rerun,
                   preStore, preFile, prevEnd>>

(* line 137: batch.commit() raises (a write is rejected, or the call fails): *)
(* nothing is applied and the exception ends the run.                       *)
CommitFails ==
    /\ CommitPending
    /\ commits' = commits + 1
    /\ pc' = "idle"
    /\ prevEnd' = "commitFailed"
    /\ UNCHANGED <<rerun, store, clock, gamesFile, structureFile, games_csv,
                   structure_csv, batch, existing_games, updated_games_csv, si,
                   gi, rowOutcome, runs, preStore, preFile>>

(* write_csv: the header and the kept rows, each with the header's columns *)
write_csv(data, fieldnames) ==
    [fieldnames |-> fieldnames,
     rows |-> [i \in DOMAIN data |-> [k \in Range(fieldnames) |-> data[i][k]]]]

(* games_csv[0].keys(): the columns of the first row, in the header's order *)
Keys(header, row) == SelectSeq(header, LAMBDA c : c \in DOMAIN row)

(* lines 140-141: games.csv is rewritten *)
WriteCsv ==
    /\ pc = "write"
    /\ gamesFile' = write_csv(updated_games_csv,
                              Keys(gamesFile.fieldnames, games_csv[1]))
    /\ pc' = "idle"
    /\ prevEnd' = "done"
    /\ UNCHANGED <<rerun, store, clock, structureFile, games_csv, structure_csv, batch,
                   existing_games, updated_games_csv, si, gi, rowOutcome, runs,
                   commits, preStore, preFile>>

Next ==
    \/ StartEmpty
    \/ StartRun
    \/ StructureStep
    \/ FetchExisting
    \/ GameRowKeyError
    \/ GameRowCreate
    \/ GameRowUpdate
    \/ GameRowUnchanged
    \/ GameRowNotFound
    \/ CommitOk
    \/ CommitFails
    \/ WriteCsv

Spec == Init /\ [][Next]_vars

-----------------------------------------------------------------------------
(* Vocabulary of the properties *)

GameIds(s) == {p[2] : p \in {q \in DOMAIN s : q[1] = "games"}}
LevelPaths(s) == {p \in DOMAIN s : Len(p) = 4}
IsGameWrite(w) == w.path[1] = "games"
Running == pc # "idle"
RunRewrote == pc = "idle" /\ prevEnd = "done"

(* The columns the game pass indexes without a default. *)
RequiredColumns == {"levelId", "gameModeId", "name", "instructions", "timeLimit", "answerBank"}
MissingRequired(game) == ~(RequiredColumns \subseteq DOMAIN game)
IdAbsent(game) == game["id"] # "" /\ game["id"] \notin GameIds(store)
IsPrefix(a, b) == Len(a) <= Len(b) /\ SubSeq(b, 1, Len(a)) = a
Count(seq, x) == Cardinality({i \in DOMAIN seq : seq[i] = x})
RefsOf(s, path) == IF Exists(s, path) THEN s[path]["gameRefs"][2] ELSE <<>>

-----------------------------------------------------------------------------
(* Parts of C1 *)

C1_StoreInRun ==
    /\ commits <= 1
    /\ pc \in {"structure", "games"} => store = preStore
    /\ \/ store = preStore
       \/ /\ commits = 1
          /\ ApplyAll(preStore, batch, clock).ok
          /\ store = ApplyAll(preStore, batch, clock).store
    /\ pc = "write" =>
          /\ commits = 1
          /\ gi = Len(games_csv) + 1
          /\ si = Len(structure_csv) + 1
          /\ store = ApplyAll(preStore, batch, clock).store

C1_CommitStep ==
    store' # store =>
        /\ pc = "games" /\ gi = Len(games_csv) + 1 /\ commits = 0 /\ commits' = 1
        /\ batch' = batch
        /\ \A i \in DOMAIN batch : Exists(store', batch[i].path)
        /\ store' = ApplyAll(store, batch, clock').store

(* C1: every write of the structure pass and of the game pass is queued in  *)
(* the one batch; the store changes only by the single commit, which is     *)
(* issued after the last games row and applies the whole batch; at every    *)
(* point of a run the store is its pre-run state or that state with all     *)
(* queued writes applied, never with only some of them.                     *)
C1_OneAtomicCommit == [](C1_StoreInRun) /\ [][C1_CommitStep]_vars

C1_Witness ==
    /\ pc = "write"
    /\ store # preStore
    /\ \E i \in DOMAIN batch : IsGameWrite(batch[i])
    /\ \E i \in DOMAIN batch : ~IsGameWrite(batch[i])

-----------------------------------------------------------------------------
(* Parts of C5 *)

C5_SkipStep ==
    (GameRowPending /\ gi' # gi
       /\ (MissingRequired(games_csv[gi]) \/ IdAbsent(games_csv[gi]))) =>
        /\ batch' = batch
        /\ pc' = "games"
        /\ gi' = gi + 1
        /\ store' = store

(* C5: a games row skipped for a missing required column, or because its id *)
(* is present but not in the store, queues no write; the pass goes on with  *)
(* the next row, and the batch is committed only after every row was        *)
(* processed.                                                               *)
C5_SkipQueuesNothing ==
    /\ [][C5_SkipStep]_vars
    /\ [](commits > 0 /\ Running => Len(rowOutcome) = Len(games_csv))

C5_Witness ==
    /\ pc = "write"
    /\ Len(games_csv) = 2
    /\ IdAbsent(preFile.rows[1])
    /\ rowOutcome[2] = "created"
    /\ \E i \in DOMAIN batch : IsGameWrite(batch[i])

-----------------------------------------------------------------------------
(* Parts of C6 *)

C6_EmptyStep ==
    (pc = "idle"
       /\ (gamesFile.rows = <<>> \/ structureFile.rows = <<>>)) =>
        /\ pc' = "idle"
        /\ batch' = <<>>
        /\ commits' = 0
        /\ store' = store
        /\ gamesFile' = gamesFile

C6_FailedCommitStep ==
    (CommitPending /\ commits' # commits /\ store' = store /\ clock' = clock) =>
        /\ pc' = "idle"
        /\ gamesFile' = gamesFile

(* C6: a run over an empty games or structure file ends at once, with no    *)
(* write queued and no commit issued; a failed commit ends the run without  *)
(* games.csv being rewritten; both leave the store and games.csv as they    *)
(* were, and no commit is issued a second time.                             *)
C6_FatalLeavesAll ==
    /\ [][C6_EmptyStep /\ C6_FailedCommitStep]_vars
    /\ []((pc = "idle" /\ prevEnd \in {"empty", "commitFailed"}) =>
             store = preStore /\ gamesFile = preFile /\ commits <= 1)
    /\ [](gamesFile # preFile => prevEnd = "done" /\ commits = 1)

C6_Witness ==
    /\ pc = "idle"
    /\ prevEnd = "commitFailed"
    /\ commits = 1
    /\ \E i \in DOMAIN batch : IsGameWrite(batch[i]) /\ batch[i].op = "set"

-----------------------------------------------------------------------------
(* Parts of C7 *)

ExpectedSugTimeLimit(cell) == IF IsDigit(cell) THEN PyInt(ParseInt(cell)) ELSE PyNone

C7_LevelWrites ==
    /\ \A i \in DOMAIN structure_csv :
          LET row == structure_csv[i]
              path == LevelPath(row["id"], row["levelId"])
          IN  (2 * i <= Len(batch) /\ Exists(preStore, path)) =>
                  /\ batch[2 * i].path = path
                  /\ batch[2 * i].op = "update"
                  /\ batch[2 * i].data =
                        [name |-> PyStr(row["levelName"]),
                         description |-> PyStr(row["levelDescription"]),
                         sugTimeLimit |-> ExpectedSugTimeLimit(row["levelSuggestedTimeLimit"])]
    /\ \A i \in DOMAIN batch :
          (Len(batch[i].path) = 4 /\ Exists(preStore, batch[i].path)) =>
              /\ batch[i].op = "update"
              /\ "gameRefs" \in DOMAIN batch[i].data =>
                     batch[i].data["gameRefs"][1] = "ArrayUnion"
    /\ pc = "write" =>
          \A i \in DOMAIN structure_csv :
              LET row == structure_csv[i]
                  path == LevelPath(row["id"], row["levelId"])
                  last == \A j \in DOMAIN structure_csv :
                             (j > i) => LevelPath(structure_csv[j]["id"],
                                                  structure_csv[j]["levelId"]) # path
              IN  (last /\ Exists(preStore, path)) =>
                      /\ store[path]["name"] = PyStr(row["levelName"])
                      /\ store[path]["description"] = PyStr(row["levelDescription"])
                      /\ store[path]["sugTimeLimit"] =
                             ExpectedSugTimeLimit(row["levelSuggestedTimeLimit"])
                      /\ IsPrefix(preStore[path]["gameRefs"][2], store[path]["gameRefs"][2])

C7_AppendOnlyStep ==
    \A p \in LevelPaths(store) :
        /\ p \in DOMAIN store'
        /\ IsPrefix(store[p]["gameRefs"][2], store'[p]["gameRefs"][2])

(* C7: for a structure row naming a level the store holds, the queued write *)
(* is an update of name, description and sugTimeLimit with the row's values *)
(* and of nothing else, so the level's gameRefs is left as it was; no write *)
(* replaces an existing level, and no step of any run removes an entry from *)
(* an existing level's gameRefs.                                            *)
C7_LevelUpdateKeepsRefs == [](C7_LevelWrites) /\ [][C7_AppendOnlyStep]_vars

C7_Witness ==
    /\ pc = "write"
    /\ \E i \in DOMAIN structure_csv :
          LET path == LevelPath(structure_csv[i]["id"], structure_csv[i]["levelId"])
          IN  /\ Exists(preStore, path)
              /\ preStore[path]["gameRefs"][2] # <<>>
              /\ store[path]["sugTimeLimit"] # preStore[path]["sugTimeLimit"]
              /\ store[path]["gameRefs"] = preStore[path]["gameRefs"]

-----------------------------------------------------------------------------
(* Parts of C9 *)

TrackedFields ==
    {"description", "instructions", "timeLimit", "gameModeId", "levelId",
     "letterPosition", "targetLetter", "answerBank"}

RowData(game) == build_game_data(game, game["gameModeId"], game["levelId"])

Differs(doc, game) == \E k \in TrackedFields : doc[k] # RowData(game)[k]

C9_RowStep ==
    (GameRowPending /\ gi' # gi
       /\ games_csv[gi]["id"] \in GameIds(store)
       /\ ~MissingRequired(games_csv[gi])) =>
        IF Differs(store[GamePath(games_csv[gi]["id"])], games_csv[gi])
        THEN batch' = Append(batch,
                             BatchUpdate(GamePath(games_csv[gi]["id"]),
                                         [updatedAt |-> SERVER_TIMESTAMP]
                                         @@ RowData(games_csv[gi])))
        ELSE batch' = batch

C9_AfterCommit ==
    pc = "write" =>
        \A id \in GameIds(preStore) :
            LET old == preStore[GamePath(id)]
                new == store[GamePath(id)]
                hits == {i \in DOMAIN games_csv :
                            /\ games_csv[i]["id"] = id
                            /\ ~MissingRequired(games_csv[i])
                            /\ Differs(old, games_csv[i])}
            IN  IF hits = {} THEN new = old
                ELSE LET l == CHOOSE i \in hits : \A j \in hits : j <= i
                     IN  /\ new["updatedAt"] = Timestamp(clock)
                         /\ new["updatedAt"] # old["updatedAt"]
                         /\ new["createdAt"] = old["createdAt"]
                         /\ \A k \in TrackedFields : new[k] = RowData(games_csv[l])[k]

(* C9: for a row whose id names a stored game, an update is queued exactly  *)
(* when one of the eight tracked fields of the stored document differs from *)
(* the data built from the row; the update carries the built data and       *)
(* refreshes updatedAt; when none differs nothing is queued for the row and *)
(* the document, with its updatedAt, stays as it was.                       *)
C9_UpdateIffTrackedDiffer == [](C9_AfterCommit) /\ [][C9_RowStep]_vars

C9_Witness ==
    /\ pc = "write"
    /\ Len(games_csv) = 2
    /\ games_csv[1]["id"] \in GameIds(preStore)
    /\ games_csv[2]["id"] = games_csv[1]["id"]
    /\ ~MissingRequired(games_csv[1])
    /\ ~Differs(preStore[GamePath(games_csv[1]["id"])], games_csv[1])
    /\ games_csv[1]["timeLimit"] = "30.0"
    /\ Differs(preStore[GamePath(games_csv[2]["id"])], games_csv[2])
    /\ store[GamePath(games_csv[2]["id"])]["updatedAt"] = Timestamp(clock)

-----------------------------------------------------------------------------
(* C10 as stated: after the rewrite, games.csv does not hold a row whose id *)
(* was present but not in the store.                                        *)
C10_UnknownIdRowDropped ==
    RunRewrote =>
        \A i \in DOMAIN preFile.rows :
            (preFile.rows[i]["id"] # "" /\ preFile.rows[i]["id"] \notin GameIds(preStore))
                => preFile.rows[i] \notin Range(gamesFile.rows)

(* Parts of C10: the rows that raise KeyError, and a kept row as written *)
RowRaises(row) ==
    \/ ~({"levelId", "gameModeId"} \subseteq DOMAIN row)
    \/ /\ row["id"] = "" \/ row["id"] \in GameIds(preStore)
       /\ MissingRequired(row)

RowAsKept(i) ==
    IF preFile.rows[i]["id"] = ""
    THEN [preFile.rows[i] EXCEPT !["id"] = games_csv[i]["id"]]
    ELSE preFile.rows[i]

KeptIndexes ==
    SelectSeq([i \in 1..Len(preFile.rows) |-> i],
              LAMBDA i : ~RowRaises(preFile.rows[i]))

(* C10 amended: the rewritten games.csv keeps the header and, in their      *)
(* original order, every row that did not raise KeyError: the rows created  *)
(* (with the new id filled in), updated or found unchanged, and also the    *)
(* rows whose id was present but not in the store, as they were; only the   *)
(* rows skipped for a missing required column are dropped.                  *)
C10_RewriteKeepsUnknownIdRows ==
    RunRewrote =>
        /\ gamesFile.fieldnames = preFile.fieldnames
        /\ gamesFile.rows = [k \in DOMAIN KeptIndexes |-> RowAsKept(KeptIndexes[k])]
        /\ \A i \in DOMAIN preFile.rows :
              (preFile.rows[i]["id"] = "" /\ ~RowRaises(preFile.rows[i])) =>
                  games_csv[i]["id"] \in GameIds(store) \ GameIds(preStore)

C10_Witness ==
    /\ RunRewrote
    /\ Len(preFile.rows) = 2
    /\ preFile.rows[1]["id"] # ""
    /\ preFile.rows[1]["id"] \notin GameIds(preStore)
    /\ preFile.rows[2]["id"] = ""
    /\ Len(gamesFile.rows) = 2
    /\ gamesFile.rows[1] = preFile.rows[1]
    /\ gamesFile.rows[2]["id"] \in GameIds(store)

-----------------------------------------------------------------------------
(* Parts of C2 *)

NoIdRows == {i \in DOMAIN preFile.rows : preFile.rows[i]["id"] = ""}

CreatingRows == {i \in NoIdRows : ~MissingRequired(preFile.rows[i])}

RowLevel(i) == LevelPath(preFile.rows[i]["gameModeId"], preFile.rows[i]["levelId"])

(* C2 as stated: every games row without an id results, in a committed run, *)
(* in exactly one new Game document and one new gameRefs entry of its       *)
(* level.                                                                   *)
C2_NoIdRowAlwaysCreates ==
    RunRewrote =>
        /\ Cardinality(GameIds(store) \ GameIds(preStore)) = Cardinality(NoIdRows)
        /\ \A i \in NoIdRows :
              /\ {"levelId", "gameModeId"} \subseteq DOMAIN preFile.rows[i]
              /\ Len(RefsOf(store, RowLevel(i))) > Len(RefsOf(preStore, RowLevel(i)))

C2_CommittedCreates ==
    pc = "write" =>
        /\ GameIds(store) \ GameIds(preStore) = {games_csv[i]["id"] : i \in CreatingRows}
        /\ Cardinality(GameIds(store) \ GameIds(preStore)) = Cardinality(CreatingRows)
        /\ \A i \in CreatingRows :
              /\ games_csv[i]["id"] # ""
              /\ Exists(store, RowLevel(i))
              /\ \A p \in LevelPaths(store) :
                    Count(RefsOf(store, p), games_csv[i]["id"])
                       = IF p = RowLevel(i) THEN 1 ELSE 0
        /\ \A p \in LevelPaths(store) :
              Len(RefsOf(store, p)) = Len(RefsOf(preStore, p))
                 + Cardinality({i \in CreatingRows : RowLevel(i) = p})

C2_RerunCreatesNothing ==
    (Running /\ rerun) =>
        /\ \A i \in DOMAIN games_csv : games_csv[i]["id"] # ""
        /\ \A i \in DOMAIN batch : batch[i].op = "set" => ~IsGameWrite(batch[i])
        /\ pc = "write" =>
              /\ GameIds(store) = GameIds(preStore)
              /\ \A p \in LevelPaths(preStore) : RefsOf(store, p) = RefsOf(preStore, p)

C2_NoDuplicateRefs ==
    \A p \in LevelPaths(store) :
        \A id \in Range(RefsOf(store, p)) : Count(RefsOf(store, p), id) = 1

(* C2 amended: in a committed run, every games row without an id that has   *)
(* every required column results in exactly one new Game document and       *)
(* exactly one new entry, the reference to it, in the gameRefs of the       *)
(* row's level (a row of a file that lacks a required column is skipped and *)
(* creates nothing); a run on the rewritten file, where the row carries the *)
(* assigned id, creates no document and adds no reference; no gameRefs ever *)
(* holds an entry twice.                                                    *)
C2_CreateOncePerCommittedRow ==
    C2_CommittedCreates /\ C2_RerunCreatesNothing /\ C2_NoDuplicateRefs

C2_Witness ==
    /\ pc = "write"
    /\ rerun
    /\ \E i \in DOMAIN games_csv :
          /\ games_csv[i]["id"] \in GameIds(preStore)
          /\ preStore[GamePath(games_csv[i]["id"])]["createdAt"] = Timestamp(clock - 1)
          /\ Count(RefsOf(store, LevelPath(games_csv[i]["gameModeId"],
                                           games_csv[i]["levelId"])),
                   games_csv[i]["id"]) = 1

-----------------------------------------------------------------------------
(* C3: between runs, every Game names a GameMode and a Level the store      *)
(* holds, and every Level's gameRefs holds exactly one reference for each   *)
(* Game that declares the level and none for a Game that declares another.  *)
C3_ParentsAndRefsAgree ==
    pc = "idle" =>
        /\ \A id \in GameIds(store) :
              LET gm == store[GamePath(id)]["gameModeId"][2]
                  lvl == store[GamePath(id)]["levelId"][2]
              IN  /\ Exists(store, GameModePath(gm))
                  /\ Exists(store, LevelPath(gm, lvl))
                  /\ \A p \in LevelPaths(store) :
                        Count(RefsOf(store, p), id) = IF p = LevelPath(gm, lvl) THEN 1 ELSE 0
        /\ \A p \in LevelPaths(store) : Range(RefsOf(store, p)) \subseteq GameIds(store)

-----------------------------------------------------------------------------
(* C4: a run that follows a committed run and its rewrite, with the inputs  *)
(* and the store otherwise unchanged, queues no write to a Game document.   *)
C4_SecondRunQueuesNoGameWrite ==
    (Running /\ rerun) =>
        \A i \in DOMAIN batch : ~IsGameWrite(batch[i])

-----------------------------------------------------------------------------
(* Part of C8: the set writes queued for a document *)
SetWrites(path) == {i \in DOMAIN batch : batch[i].op = "set" /\ batch[i].path = path}

(* C8: a GameMode or Level that the store does not hold is created by one   *)
(* set write in the run, however many structure rows name it.               *)
C8_OneCreatePerDocument ==
    \A i \in DOMAIN structure_csv :
        (Running /\ 2 * i <= Len(batch)) =>
            LET mode == GameModePath(structure_csv[i]["id"])
                level == LevelPath(structure_csv[i]["id"], structure_csv[i]["levelId"])
            IN  /\ ~Exists(preStore, mode) => Cardinality(SetWrites(mode)) = 1
                /\ ~Exists(preStore, level) => Cardinality(SetWrites(level)) = 1

====
